---- MODULE Spec2Model ----
(***************************************************************************)
(* Dolittle web demo: the live-capture interpretation loop.                *)
(*                                                                         *)
(* The model covers the LiveVideoView component (camera lifecycle, the     *)
(* repeating interpretation interval, the identify/confirm sub-flow), the  *)
(* App component's pet collection (addPet / addInterpretationToPet /       *)
(* handleSavePets), the live path of geminiService and speechService.      *)
(*                                                                         *)
(* React is modelled as follows.  A handler runs to its first await (or to *)
(* its end), then the component re-renders and the effects whose           *)
(* dependencies changed run; all of that is one atomic action.  A function *)
(* created by a render sees the state of that render only, so everything   *)
(* that outlives a render (the interval callback, the continuation of an   *)
(* await) carries a closure: the values it captured when it was created.   *)
(***************************************************************************)
EXTENDS Integers, Sequences, FiniteSets, TLC

(* ------------------------------ bounds -------------------------------- *)
\* interpretLiveFrame calls issued in one behaviour
MaxReq == 2
\* identifyPetFromFrame calls issued in one behaviour
MaxIdent == 1
\* getUserMedia calls issued in one behaviour
MaxStreams == 1
\* clock readings after the initial one
MaxClockSteps == 1
\* longest pet name the user types
MaxNameLen == 1
\* pushes in the log specification
MaxLogPushes == 101
\* getUserMedia calls issued in one behaviour of the restart specification
MaxRestarts == 2
\* speak calls in SpeechSpec
MaxSpeaks == 3
\* interpretPetVideo calls in UploadSpec
MaxUploads == 2
\* pets in the store and entries in one history, in StorageSpec
MaxStoredPets == 4
MaxHistory == 2

(* ------------------------- program constants -------------------------- *)
\* prevLog.slice(0, 99): entries of the previous log kept by a push
LogKeep == 99
\* error.message.substring(0, 100) in interpretLiveFrame's catch
ErrorLimit == 100

LogCapacity == LogKeep + 1

(* ------------------------------- values -------------------------------- *)
\* currentManagingPetId === null
NoPet == 0
\* stream === null
NoStream == 0

\* A text shown, logged, stored or spoken.  req is the interpretLiveFrame
\* call that produced it (0: none), len the length of the backend's error
\* message that was kept.
Text(kind, req, len) == [kind |-> kind, req |-> req, len |-> len]
EmptyText == Text("empty", 0, 0)
NotInitialized == Text("notInitialized", 0, 0)

\* identifiedPetInfo === null
NoInfo == [present |-> FALSE, animalType |-> "", breed |-> "", description |-> ""]
Info(a, b, d) == [present |-> TRUE, animalType |-> a, breed |-> b, description |-> d]

NameChars == {" ", "R"}
Names == UNION {[1..n -> NameChars] : n \in 0..MaxNameLen}
\* the characters of an animalType, for the default name proposal
Chars(s) == IF s = "Dog" THEN <<"D", "o", "g">> ELSE <<>>

VARIABLES
  \* ---- LiveVideoView state (useState / useRef)
  stream, isCameraOn, currentLiveInterpretation, interpretationLog,
  isLoading, isIdentifying, error, identifiedPetInfo, petName,
  currentManagingPetId, isMuted,
  mounted,        \* the component is rendered (videoRef.current is set)
  srcObject,      \* videoRef.current.srcObject is set
  \* ---- App state and localStorage
  pets, storage,
  \* ---- environment
  timers,         \* live intervals, each with the closure of its callback
  liveCalls,      \* outstanding interpretLiveFrame calls, with the tick's closure
  identifyCalls,  \* outstanding identifyPetFromFrame calls
  cameraRequests, \* pending getUserMedia calls, with startCamera's closure
  activeTracks,   \* media streams whose tracks are running
  nStreams,       \* media streams handed out so far
  speaking,       \* the text the speech engine is speaking (EmptyText: silent)
  now,            \* Date.now()
  ai,             \* the Gemini client exists (API_KEY configured)
  mediaDevices,   \* navigator.mediaDevices.getUserMedia exists
  upload,         \* VideoUploadView: its state and its outstanding call
  synth,          \* speechService: the shared utterance, the voices and the
                  \* utterances the engine has queued but not begun
  \* ---- history
  nReq,           \* interpretLiveFrame calls issued so far
  nIdent,         \* identifyPetFromFrame calls issued so far
  issuedFor,      \* issuedFor[r]: the tracked subject when call r was issued
  stopQuiesced,   \* stopCamera has returned with no getUserMedia pending, and
                  \* startCamera has not been called since
  lastEvent       \* what the last step did

vars == <<stream, isCameraOn, currentLiveInterpretation, interpretationLog,
          isLoading, isIdentifying, error, identifiedPetInfo, petName,
          currentManagingPetId, isMuted, mounted, srcObject, pets, storage,
          timers, liveCalls, identifyCalls, cameraRequests, activeTracks,
          nStreams, speaking, now, ai, mediaDevices, upload, synth, nReq,
          nIdent, issuedFor, stopQuiesced, lastEvent>>

viewVars == <<stream, isCameraOn, currentLiveInterpretation, interpretationLog,
              isLoading, isIdentifying, error, identifiedPetInfo, petName,
              currentManagingPetId, isMuted, mounted, srcObject>>

\* what a step did: its operation, how it ended, the request it resolved,
\* whether that request was outstanding when stopCamera ran, the calls it
\* made to addPet (creates), addInterpretationToPet (appends), speak
\* (announces), and the pet id it passed to addInterpretationToPet (target)
Event(op, outcome, req, stale, creates, appends, announces, target) ==
  [op |-> op, outcome |-> outcome, req |-> req, stale |-> stale,
   creates |-> creates, appends |-> appends, announces |-> announces,
   target |-> target]
Quiet(op) == Event(op, "", 0, FALSE, 0, 0, 0, NoPet)
\* a handler that ended without calling the store or the speech engine
Ended(op, outcome) == Event(op, outcome, 0, FALSE, 0, 0, 0, NoPet)
\* a step the history keeps nothing of
NoEvent == Quiet("")

(* ------------------------------ strings -------------------------------- *)
RECURSIVE TrimStart(_)
TrimStart(s) == IF s # <<>> /\ Head(s) = " " THEN TrimStart(Tail(s)) ELSE s
RECURSIVE TrimEnd(_)
TrimEnd(s) ==
  IF s # <<>> /\ s[Len(s)] = " " THEN TrimEnd(SubSeq(s, 1, Len(s) - 1)) ELSE s
\* trim left out
Trim_Missing(s) == s
\* String.prototype.trim
Trim(s) == TrimEnd(TrimStart(s))

Min(a, b) == IF a < b THEN a ELSE b

(* ------------------------- App: the pet collection --------------------- *)
NewPet(name, animalType, breed, t) ==
  [id |-> t, name |-> name, animalType |-> animalType, breed |-> breed,
   interpretations |-> <<>>, createdAt |-> t]

NewEntry(text, context, t) ==
  [id |-> t, timestamp |-> t, text |-> text, context |-> context]

\* addPet: the collection of the caller's render with the new pet appended
AddPet(ps, name, animalType, breed, t) ==
  Append(ps, NewPet(name, animalType, breed, t))

\* addInterpretationToPet: the collection of the caller's render, with the
\* entry appended to the history of every pet whose id is petId
AddInterpretationToPet(ps, petId, text, context, t) ==
  [i \in 1..Len(ps) |->
     IF ps[i].id = petId
       THEN [ps[i] EXCEPT !.interpretations = Append(@, NewEntry(text, context, t))]
       ELSE ps[i]]

PetIds(ps) == {ps[i].id : i \in 1..Len(ps)}

(* --------------------- LiveVideoView: pure helpers --------------------- *)
\* slice(0, 100): one entry too many kept
LogPush_KeepsOneMore(text, log) == <<text>> \o SubSeq(log, 1, Min(Len(log), LogKeep + 1))
\* setInterpretationLog(prevLog => [interpretationText, ...prevLog.slice(0, 99)])
LogPush(text, log) == <<text>> \o SubSeq(log, 1, Min(Len(log), LogKeep))

\* the text of the Identification entry written by handleSaveIdentifiedPet
IdentificationText == Text("identification", 0, 0)

(* ------------------------- geminiService (live) ------------------------ *)
\* what the backend answers to a generateContent call.  A fulfilled call
\* has a response whose text is a string (isString, chars) or is not one; a
\* rejected call has an error whose message is len characters long.  type
\* says which it is: a text, a blank (empty, whitespace or non-string), an
\* error.
LiveResponses ==
  {[type |-> "text", isString |-> TRUE, chars |-> <<"o">>, len |-> 0],
   [type |-> "blank", isString |-> TRUE, chars |-> <<>>, len |-> 0],
   [type |-> "blank", isString |-> TRUE, chars |-> <<" ">>, len |-> 0],
   [type |-> "blank", isString |-> FALSE, chars |-> <<>>, len |-> 0],
   [type |-> "error", isString |-> FALSE, chars |-> <<>>, len |-> ErrorLimit + 40]}

\* the check for an empty response made without trim
InterpretLiveFrame_NoTrim(resp, req) ==
  IF resp.type = "error"
    THEN Text("errorFromAI", req, Min(resp.len, ErrorLimit))
    ELSE IF ~resp.isString \/ resp.chars = <<>>
      THEN Text("fallback", req, 0)
      ELSE Text("observation", req, 0)
\* interpretLiveFrame, with the client initialised: the response text, the
\* fallback sentence for an empty response, or "Error from AI: " followed by
\* the first 100 characters of the error's message.  It never rejects.
InterpretLiveFrame(resp, req) ==
  IF resp.type = "error"
    THEN Text("errorFromAI", req, Min(resp.len, ErrorLimit))
    ELSE IF ~resp.isString \/ Trim(resp.chars) = <<>>
      THEN Text("fallback", req, 0)
      ELSE Text("observation", req, 0)

(* ---------------------- geminiService (identify) ----------------------- *)
\* An error message, by what handleGeminiError looks for in it: the word
\* "quota", "api key not valid" or "invalid api key", "Failed to process" or
\* "The AI returned an empty"; wrapped says that it stands behind the prefix
\* "Failed to get response from Gemini: ".
Message(id, quota, invalidKey, passthrough) ==
  [id |-> id, quota |-> quota, invalidKey |-> invalidKey,
   passthrough |-> passthrough, wrapped |-> FALSE]
NoMessage == Message("", FALSE, FALSE, FALSE)
NotInitializedMessage == Message("notInitialized", FALSE, FALSE, FALSE)
UnknownMessage == Message("unknownError", FALSE, FALSE, FALSE)
QuotaMessage == Message("quotaLimits", TRUE, FALSE, FALSE)
InvalidKeyMessage == Message("invalidApiKey", FALSE, TRUE, FALSE)
IncompleteMessage == Message("incompleteIdentification", FALSE, FALSE, FALSE)
FormatMessage == Message("notInExpectedFormat", FALSE, FALSE, FALSE)
EmptyResponseMessage == Message("emptyOrUnexpectedResponse", FALSE, FALSE, TRUE)
\* SyntaxError: JSON.parse
SyntaxErrorMessage == Message("unexpectedToken", FALSE, FALSE, FALSE)
\* TypeError: a property read of undefined or null
TypeErrorMessage == Message("cannotReadProperties", FALSE, FALSE, FALSE)

\* a thrown value: an Error with a message, or something else
Thrown(message) == [isError |-> TRUE, message |-> message]
NonError == [isError |-> FALSE, message |-> NoMessage]

\* what generateContent rejects with
TransportErrors ==
  { Thrown(Message("fetchFailed", FALSE, FALSE, FALSE)),
    Thrown(Message("resourceExhausted", TRUE, FALSE, FALSE)),
    Thrown(Message("keyRejected", FALSE, TRUE, FALSE)),
    NonError }

handleGeminiError(err) ==
  IF ~err.isError THEN UnknownMessage
  ELSE IF err.message.quota THEN QuotaMessage
  ELSE IF err.message.invalidKey THEN InvalidKeyMessage
  ELSE IF err.message.passthrough THEN err.message
  ELSE [err.message EXCEPT !.wrapped = TRUE]

\* The three fields of an identification.
Fields == {"animalType", "breed", "description"}
\* A JSON value: null, an object with some of the fields (a field can be the
\* empty string), or any other value (a number, an array, a string).
JsonNull == [kind |-> "null", fields |-> <<>>]
JsonOther == [kind |-> "other", fields |-> <<>>]
JsonObject(fields) == [kind |-> "object", fields |-> fields]
\* value.field is truthy
Truthy(value, field) ==
  value.kind = "object" /\ field \in DOMAIN value.fields /\ value.fields[field] # ""

\* A response text: not a string, or a string that is a body (JSON text or
\* not) standing in a Markdown code fence or bare.
NoText == [isString |-> FALSE, fenced |-> FALSE, parses |-> FALSE, json |-> JsonNull]
ReplyText(fenced, parses, json) ==
  [isString |-> TRUE, fenced |-> fenced, parses |-> parses, json |-> json]

\* the match of fenceRegex: the body without its fence
Unfence(text) == [text EXCEPT !.fenced = FALSE]
\* JSON.parse: a text in a fence is not JSON
JsonParses(text) == ~text.fenced /\ text.parses

\* what generateContent settles with
Rejected(err) == [settled |-> "rejected", error |-> err, text |-> NoText]
Fulfilled(text) == [settled |-> "fulfilled", error |-> NonError, text |-> text]

\* the outcome of a service call: a value returned or an Error thrown
Returned(info) == [ok |-> TRUE, info |-> info, message |-> NoMessage]
Threw(message) == [ok |-> FALSE, info |-> NoInfo, message |-> message]

\* the parsed object returned without the check of its fields
IdentifyPetFromFrame_NoFieldCheck(reply) ==
  IF reply.settled = "fulfilled" /\ reply.text.isString
     /\ JsonParses(Unfence(reply.text)) /\ reply.text.json.kind = "object"
    THEN LET v == reply.text.json.fields
             Field(k) == IF k \in DOMAIN v THEN v[k] ELSE ""
         IN Returned(Info(Field("animalType"), Field("breed"), Field("description")))
    ELSE Threw(handleGeminiError(Thrown(FormatMessage)))

\* identifyPetFromFrame answering "Unknown" where it throws
IdentifyPetFromFrame_UnknownOnFailure(reply) ==
  IF reply.settled = "fulfilled" /\ reply.text.isString
     /\ JsonParses(Unfence(reply.text)) /\ reply.text.json.kind = "object"
     /\ \A k \in Fields : Truthy(reply.text.json, k)
    THEN LET v == reply.text.json.fields
         IN Returned(Info(v["animalType"], v["breed"], v["description"]))
    ELSE Returned(Info("Unknown", "Unknown", "Unknown"))

\* identifyPetFromFrame, with the client initialised
IdentifyPetFromFrame(reply) ==
  LET jsonStr == IF reply.text.fenced THEN Unfence(reply.text) ELSE reply.text
      parsed  == jsonStr.json
      \* the inner try: JSON.parse, the check of the three fields; its catch
      \* replaces whatever was thrown by the format Error
      tried ==
        IF ~JsonParses(jsonStr) THEN Thrown(SyntaxErrorMessage)
        ELSE IF parsed.kind = "null" THEN Thrown(TypeErrorMessage)
        ELSE IF \A k \in Fields : Truthy(parsed, k) THEN NonError
        ELSE Thrown(IncompleteMessage)
      inner == IF tried = NonError THEN NonError ELSE Thrown(FormatMessage)
  IN
  IF reply.settled = "rejected" THEN Threw(handleGeminiError(reply.error))
  ELSE IF ~reply.text.isString THEN Threw(handleGeminiError(Thrown(TypeErrorMessage)))
  ELSE IF inner = NonError
    THEN Returned(Info(parsed.fields["animalType"], parsed.fields["breed"],
                       parsed.fields["description"]))
    ELSE Threw(handleGeminiError(inner))

\* an object with the three fields given
Identification(a, b, d) ==
  JsonObject([k \in Fields |-> CASE k = "animalType" -> a [] k = "breed" -> b [] OTHER -> d])

\* what the backend answers to an identification in the view
IdentifyResponses ==
  { [label |-> "dog",
     reply |-> Fulfilled(ReplyText(TRUE, TRUE, Identification("Dog", "Unknown", "a dog")))],
    [label |-> "noAnimal",
     reply |-> Fulfilled(ReplyText(FALSE, TRUE, Identification("Unknown", "Unknown", "no animal")))],
    [label |-> "failure",
     reply |-> Fulfilled(ReplyText(FALSE, TRUE, JsonObject([k \in {"animalType"} |-> "Dog"])))],
    [label |-> "failure",
     reply |-> Rejected(Thrown(Message("fetchFailed", FALSE, FALSE, FALSE)))] }

(* ----------------------- the interpretation interval ------------------- *)
\* what a function of the current render captures
Closure(cam, pet, info, muted, ps) ==
  [cam |-> cam, pet |-> pet, info |-> info, muted |-> muted, pets |-> ps]

CurrentClosure ==
  Closure(isCameraOn, currentManagingPetId, identifiedPetInfo.present, isMuted, pets)

\* clearInterval given the ref object instead of its current handle
ClearRef_WrongHandle(ts) == ts
\* clearInterval(interpretationIntervalRef.current)
ClearRef(ts) == {t \in ts : ~t.ref}

\* interpretationIntervalRef.current = setInterval(callback of closure c)
SetRef(ts, c) ==
  {[t EXCEPT !.ref = FALSE] : t \in ts}
    \cup {[ref |-> TRUE, cam |-> c.cam, pet |-> c.pet, muted |-> c.muted, pets |-> c.pets]}

\* startLiveInterpretation without its leading clearInterval
StartLiveInterpretation_NoClear(ts, c) ==
  IF c.pet = NoPet /\ ~c.info THEN ts ELSE SetRef(ts, c)
\* startLiveInterpretation, as created by the render with closure c
StartLiveInterpretation(ts, c) ==
  IF c.pet = NoPet /\ ~c.info
    THEN ClearRef(ts)
    ELSE SetRef(ClearRef(ts), c)

\* the cycle effect with isCameraOn left out of its condition
CycleEffect_IgnoresCamera(ts, c) ==
  IF c.pet # NoPet \/ c.info
    THEN StartLiveInterpretation(ClearRef(ts), c)
    ELSE ClearRef(ClearRef(ts))
\* the cycle effect re-running after a render with closure c: the previous
\* run's cleanup, then the effect's body
CycleEffect(ts, c) ==
  IF c.cam /\ (c.pet # NoPet \/ c.info)
    THEN StartLiveInterpretation(ClearRef(ts), c)
    ELSE ClearRef(ClearRef(ts))

\* stopCamera's part on the interval
StopCameraInterval(ts) == ClearRef(ts)

MarkStale(calls) == {[c EXCEPT !.stale = TRUE] : c \in calls}

(* ---------------------- the other views and services ------------------ *)
\* selectedPetIdForUpload === 'new'
NewPetOption == 0

\* VideoUploadView not rendered
UploadClosed ==
  [mounted |-> FALSE, videoFile |-> FALSE, interpretation |-> EmptyText,
   isLoading |-> FALSE, error |-> NoMessage,
   selectedPetIdForUpload |-> NewPetOption, calls |-> {}]

\* locales, character by character
EnUS == <<"e", "n", "-", "U", "S">>
EnGB == <<"e", "n", "-", "G", "B">>
FrFR == <<"f", "r", "-", "F", "R">>
\* the locales speak is called with
Locales == {EnUS, FrFR}

\* a SpeechSynthesisVoice
Voice(lang, default) == [lang |-> lang, default |-> default]
\* utterance.voice == null
NoVoice == Voice(<<>>, FALSE)
\* what getVoices can return
VoiceLists ==
  { <<>>,
    <<Voice(EnGB, FALSE), Voice(EnUS, TRUE)>>,
    <<Voice(EnUS, TRUE), Voice(FrFR, FALSE)>>,
    <<Voice(FrFR, TRUE)>> }

\* speechService as loaded: whether the browser has speechSynthesis, the one
\* utterance the module shares between calls, the voices the engine offers,
\* the utterances handed to the engine that it has not begun to speak, and
\* the number of speak calls made
SynthIdle(supported, voices) ==
  [supported |-> supported,
   utterance |-> [text |-> EmptyText, lang |-> EnUS, voice |-> NoVoice],
   voices |-> voices, queue |-> <<>>, calls |-> 0]

(* ------------------------------- Init ---------------------------------- *)
\* the clock reading at which the view is opened
\* the collection loaded from localStorage when App mounts
InitialPets ==
  << NewPet(<<"A">>, "Cat", "Unknown", 1), NewPet(<<"B">>, "Dog", "Unknown", 2) >>

\* the clock reading at which the view is opened: later than every stored id
InitialClock == Len(InitialPets) + 1

\* the application loaded, no view opened yet
AppLoaded ==
  /\ stream = NoStream
  /\ isCameraOn = FALSE
  /\ currentLiveInterpretation = EmptyText
  /\ interpretationLog = <<>>
  /\ isLoading = FALSE
  /\ isIdentifying = FALSE
  /\ error = ""
  /\ identifiedPetInfo = NoInfo
  /\ petName = <<>>
  /\ currentManagingPetId = NoPet
  /\ isMuted = FALSE
  /\ srcObject = FALSE
  /\ pets = InitialPets
  /\ storage = InitialPets
  /\ timers = {}
  /\ liveCalls = {}
  /\ identifyCalls = {}
  /\ cameraRequests = <<>>
  /\ activeTracks = {}
  /\ nStreams = 0
  /\ speaking = EmptyText
  /\ now = InitialClock
  /\ nReq = 0
  /\ nIdent = 0
  /\ issuedFor = <<>>
  /\ stopQuiesced = FALSE
  /\ lastEvent = NoEvent

\* LiveVideoView opened
Init ==
  /\ AppLoaded
  /\ mounted = TRUE
  /\ ai \in BOOLEAN
  /\ mediaDevices \in BOOLEAN
  /\ upload = UploadClosed
  /\ synth = SynthIdle(TRUE, <<>>)

Remove(seq, i) == SubSeq(seq, 1, i - 1) \o SubSeq(seq, i + 1, Len(seq))

(* ------------------------------ camera --------------------------------- *)
\* startCamera up to its await (the Start Camera button, shown while the
\* camera is off), with at most n getUserMedia calls in one behaviour
StartCameraWithin(n) ==
  /\ mounted /\ ~isCameraOn
  /\ nStreams + Len(cameraRequests) < n
  /\ currentLiveInterpretation' = EmptyText
  /\ interpretationLog' = <<>>
  /\ IF mediaDevices
       THEN /\ error' = ""
            /\ cameraRequests' = Append(cameraRequests, CurrentClosure)
            /\ lastEvent' = NoEvent
       ELSE /\ error' = "Camera access is not supported"
            /\ lastEvent' = Ended("startCamera", "unsupported")
            /\ UNCHANGED cameraRequests
  /\ stopQuiesced' = FALSE
  /\ UNCHANGED <<stream, isCameraOn, isLoading, isIdentifying, identifiedPetInfo,
                 petName, currentManagingPetId, isMuted, mounted, srcObject, pets,
                 storage, timers, liveCalls, identifyCalls, activeTracks, nStreams,
                 speaking, now, ai, mediaDevices, upload, synth, nReq, nIdent, issuedFor>>

StartCamera == StartCameraWithin(MaxStreams)

\* getUserMedia resolves: the rest of startCamera's try block, run with the
\* closure of the render in which the button was clicked
GetUserMediaResolves ==
  \E i \in 1..Len(cameraRequests) :
    LET c      == cameraRequests[i]
        s      == nStreams + 1
        direct == IF c.pet # NoPet THEN StartLiveInterpretation(timers, c) ELSE timers
    IN
    /\ cameraRequests' = Remove(cameraRequests, i)
    /\ nStreams' = s
    /\ activeTracks' = activeTracks \cup {s}
    /\ IF mounted
         THEN /\ stream' = s
              /\ srcObject' = TRUE
              /\ isCameraOn' = TRUE
              /\ timers' = IF ~isCameraOn
                             THEN CycleEffect(direct,
                                    Closure(TRUE, currentManagingPetId,
                                            identifiedPetInfo.present, isMuted, pets))
                             ELSE direct
         ELSE /\ timers' = direct
              /\ UNCHANGED <<stream, srcObject, isCameraOn>>
    /\ lastEvent' = NoEvent
    /\ UNCHANGED <<currentLiveInterpretation, interpretationLog, isLoading,
                   isIdentifying, error, identifiedPetInfo, petName,
                   currentManagingPetId, isMuted, mounted, pets, storage, liveCalls,
                   identifyCalls, speaking, now, ai, mediaDevices, upload, synth, nReq, nIdent,
                   issuedFor, stopQuiesced>>

\* getUserMedia rejects: startCamera's catch block
GetUserMediaRejects ==
  \E i \in 1..Len(cameraRequests) :
    /\ cameraRequests' = Remove(cameraRequests, i)
    /\ IF mounted
         THEN /\ error' = "Could not access camera"
              /\ isCameraOn' = FALSE
              /\ timers' = IF isCameraOn
                             THEN CycleEffect(timers,
                                    Closure(FALSE, currentManagingPetId,
                                            identifiedPetInfo.present, isMuted, pets))
                             ELSE timers
         ELSE UNCHANGED <<error, isCameraOn, timers>>
    /\ lastEvent' = Ended("startCamera", "rejected")
    /\ UNCHANGED <<stream, currentLiveInterpretation, interpretationLog, isLoading,
                   isIdentifying, identifiedPetInfo, petName, currentManagingPetId,
                   isMuted, mounted, srcObject, pets, storage, liveCalls,
                   identifyCalls, activeTracks, nStreams, speaking, now, ai,
                   mediaDevices, upload, synth, nReq, nIdent, issuedFor, stopQuiesced>>

\* stopCamera clearing the pet information as well
StopCamera_ClearsPetInfo ==
  /\ mounted /\ isCameraOn
  /\ activeTracks' = activeTracks \ {stream}
  /\ stream' = NoStream
  /\ isCameraOn' = FALSE
  /\ timers' = CycleEffect(StopCameraInterval(timers),
                  Closure(FALSE, NoPet, FALSE, isMuted, pets))
  /\ speaking' = EmptyText
  /\ liveCalls' = MarkStale(liveCalls)
  /\ identifyCalls' = MarkStale(identifyCalls)
  /\ stopQuiesced' = (Len(cameraRequests) = 0)
  /\ currentManagingPetId' = NoPet
  /\ identifiedPetInfo' = NoInfo
  /\ petName' = <<>>
  /\ lastEvent' = NoEvent
  /\ UNCHANGED <<currentLiveInterpretation, interpretationLog, isLoading,
                 isIdentifying, error, isMuted, mounted, srcObject, pets, storage,
                 cameraRequests, nStreams, now, ai, mediaDevices, upload, synth, nReq, nIdent,
                 issuedFor>>

\* stopCamera (the Stop Camera button, shown while the camera is on)
StopCamera ==
  /\ mounted /\ isCameraOn
  /\ activeTracks' = activeTracks \ {stream}
  /\ stream' = NoStream
  /\ isCameraOn' = FALSE
  /\ timers' = CycleEffect(StopCameraInterval(timers),
                  Closure(FALSE, currentManagingPetId, identifiedPetInfo.present,
                          isMuted, pets))
  /\ speaking' = EmptyText
  /\ liveCalls' = MarkStale(liveCalls)
  /\ identifyCalls' = MarkStale(identifyCalls)
  /\ stopQuiesced' = (Len(cameraRequests) = 0)
  /\ lastEvent' = NoEvent
  /\ UNCHANGED <<currentLiveInterpretation, interpretationLog, isLoading,
                 isIdentifying, error, identifiedPetInfo, petName,
                 currentManagingPetId, isMuted, mounted, srcObject, pets, storage,
                 cameraRequests, nStreams, now, ai, mediaDevices, upload, synth, nReq, nIdent,
                 issuedFor>>

\* Back to Menu: stopCamera() of the current render, then navigateTo('menu')
\* unmounts the view: the cycle effect's cleanup runs, and the unmount
\* cleanup runs the first render's stopCamera (whose stream is null)
BackToMenu ==
  /\ mounted
  /\ activeTracks' = activeTracks \ {stream}
  /\ stream' = NoStream
  /\ isCameraOn' = FALSE
  /\ timers' = StopCameraInterval(ClearRef(StopCameraInterval(timers)))
  /\ speaking' = EmptyText
  /\ mounted' = FALSE
  /\ srcObject' = FALSE
  /\ liveCalls' = MarkStale(liveCalls)
  /\ identifyCalls' = MarkStale(identifyCalls)
  /\ stopQuiesced' = (Len(cameraRequests) = 0)
  /\ lastEvent' = NoEvent
  /\ UNCHANGED <<currentLiveInterpretation, interpretationLog, isLoading,
                 isIdentifying, error, identifiedPetInfo, petName,
                 currentManagingPetId, isMuted, pets, storage, cameraRequests,
                 nStreams, now, ai, mediaDevices, upload, synth, nReq, nIdent, issuedFor>>

(* ------------------------- subject selection --------------------------- *)
\* selectExistingPet without its setIdentifiedPetInfo(null), setPetName('')
\* and setError(null)
SelectExistingPet_KeepsPending ==
  \E p \in PetIds(pets) :
    /\ mounted /\ ~isCameraOn /\ p # currentManagingPetId
    /\ currentManagingPetId' = p
    /\ interpretationLog' = <<>>
    /\ currentLiveInterpretation' = EmptyText
    /\ timers' = CycleEffect(
                   IF isCameraOn
                     THEN StartLiveInterpretation(timers, CurrentClosure)
                     ELSE timers,
                   Closure(isCameraOn, p, identifiedPetInfo.present, isMuted, pets))
    /\ lastEvent' = NoEvent
    /\ UNCHANGED <<stream, isCameraOn, isLoading, isIdentifying, isMuted, mounted,
                   identifiedPetInfo, petName, error,
                   srcObject, pets, storage, liveCalls, identifyCalls,
                   cameraRequests, activeTracks, nStreams, speaking, now, ai,
                   mediaDevices, upload, synth, nReq, nIdent, issuedFor, stopQuiesced>>

\* selectExistingPet (the pet selector, shown while the camera is off)
SelectExistingPet ==
  \E p \in PetIds(pets) :
    /\ mounted /\ ~isCameraOn /\ p # currentManagingPetId
    /\ currentManagingPetId' = p
    /\ identifiedPetInfo' = NoInfo
    /\ petName' = <<>>
    /\ error' = ""
    /\ interpretationLog' = <<>>
    /\ currentLiveInterpretation' = EmptyText
    /\ timers' = CycleEffect(
                   IF isCameraOn
                     THEN StartLiveInterpretation(timers, CurrentClosure)
                     ELSE timers,
                   Closure(isCameraOn, p, FALSE, isMuted, pets))
    /\ lastEvent' = NoEvent
    /\ UNCHANGED <<stream, isCameraOn, isLoading, isIdentifying, isMuted, mounted,
                   srcObject, pets, storage, liveCalls, identifyCalls,
                   cameraRequests, activeTracks, nStreams, speaking, now, ai,
                   mediaDevices, upload, synth, nReq, nIdent, issuedFor, stopQuiesced>>

\* the selector's empty option: setCurrentManagingPetId(null)
DeselectPet ==
  /\ mounted /\ ~isCameraOn /\ currentManagingPetId # NoPet
  /\ currentManagingPetId' = NoPet
  /\ timers' = CycleEffect(timers,
                  Closure(isCameraOn, NoPet, identifiedPetInfo.present, isMuted, pets))
  /\ lastEvent' = NoEvent
  /\ UNCHANGED <<stream, isCameraOn, currentLiveInterpretation, interpretationLog,
                 isLoading, isIdentifying, error, identifiedPetInfo, petName,
                 isMuted, mounted, srcObject, pets, storage, liveCalls,
                 identifyCalls, cameraRequests, activeTracks, nStreams, speaking,
                 now, ai, mediaDevices, upload, synth, nReq, nIdent, issuedFor, stopQuiesced>>

(* --------------------------- identification ---------------------------- *)
\* handleIdentifyPet with the frame check left out
IdentifyOutcome_IgnoresFrame(frame, client) ==
  IF ~client THEN "threw" ELSE "issued"
\* how handleIdentifyPet goes on after captureFrameAsBase64: it returns with
\* an error when there is no frame, lands in its catch block when
\* identifyPetFromFrame throws for want of a client, and awaits the call
\* otherwise
IdentifyOutcome(frame, client) ==
  IF ~frame THEN "noFrame"
  ELSE IF ~client THEN "threw"
  ELSE "issued"

\* handleIdentifyPet up to its await (the Identify New Pet button, shown
\* while the camera is on with no pet and no identification, disabled while
\* isIdentifying).  frame: whether captureFrameAsBase64 yields an image.
HandleIdentifyPet ==
  \E frame \in BOOLEAN :
    LET outcome == IdentifyOutcome(frame, ai) IN
    /\ mounted /\ isCameraOn /\ currentManagingPetId = NoPet
    /\ ~identifiedPetInfo.present /\ ~isIdentifying
    /\ identifiedPetInfo' = NoInfo
    /\ IF outcome = "noFrame"
         THEN /\ error' = "Could not capture frame from video."
              /\ UNCHANGED <<isIdentifying, identifyCalls, nIdent>>
         ELSE IF outcome = "threw"
           THEN /\ error' = "Gemini API client is not initialized."
                /\ UNCHANGED <<isIdentifying, identifyCalls, nIdent>>
           ELSE /\ nIdent < MaxIdent
                /\ error' = ""
                /\ isIdentifying' = TRUE
                /\ nIdent' = nIdent + 1
                /\ identifyCalls' = identifyCalls \cup {[id |-> nIdent + 1, stale |-> FALSE]}
    /\ lastEvent' = Ended("identify", IF frame THEN "captured" ELSE "noFrame")
    /\ UNCHANGED <<stream, isCameraOn, currentLiveInterpretation, interpretationLog,
                   isLoading, petName, currentManagingPetId, isMuted, mounted,
                   srcObject, pets, storage, timers, liveCalls, cameraRequests,
                   activeTracks, nStreams, speaking, now, ai, mediaDevices, upload, synth, nReq,
                   issuedFor, stopQuiesced>>

\* identifyPetFromFrame settles: the rest of handleIdentifyPet
IdentifyResolves ==
  \E c \in identifyCalls, resp \in IdentifyResponses :
    LET r == IdentifyPetFromFrame(resp.reply) IN
    /\ identifyCalls' = identifyCalls \ {c}
    /\ IF mounted
         THEN /\ isIdentifying' = FALSE
              /\ IF r.ok
                   THEN /\ identifiedPetInfo' = r.info
                        /\ petName' = IF r.info.animalType # "Unknown"
                                        THEN Chars(r.info.animalType) ELSE <<>>
                        /\ timers' = CycleEffect(timers,
                                       Closure(isCameraOn, currentManagingPetId, TRUE,
                                               isMuted, pets))
                        /\ UNCHANGED error
                   ELSE /\ error' = "Failed to identify pet."
                        /\ UNCHANGED <<identifiedPetInfo, petName, timers>>
         ELSE UNCHANGED <<isIdentifying, identifiedPetInfo, petName, timers, error>>
    /\ lastEvent' = Event("identifyResolved", resp.label, c.id, c.stale, 0, 0, 0, NoPet)
    /\ UNCHANGED <<stream, isCameraOn, currentLiveInterpretation, interpretationLog,
                   isLoading, currentManagingPetId, isMuted, mounted, srcObject,
                   pets, storage, liveCalls, cameraRequests, activeTracks, nStreams,
                   speaking, now, ai, mediaDevices, upload, synth, nReq, nIdent, issuedFor,
                   stopQuiesced>>

\* the name input of the confirmation form (shown while an identification
\* is present and no pet is bound)
SetPetName ==
  \E n \in Names :
    /\ mounted /\ identifiedPetInfo.present /\ currentManagingPetId = NoPet
    /\ n # petName
    /\ petName' = n
    /\ lastEvent' = NoEvent
    /\ UNCHANGED <<stream, isCameraOn, currentLiveInterpretation, interpretationLog,
                   isLoading, isIdentifying, error, identifiedPetInfo,
                   currentManagingPetId, isMuted, mounted, srcObject, pets, storage,
                   timers, liveCalls, identifyCalls, cameraRequests, activeTracks,
                   nStreams, speaking, now, ai, mediaDevices, upload, synth, nReq, nIdent,
                   issuedFor, stopQuiesced>>

\* the collection handleSaveIdentifiedPet leaves: addPet and then
\* addInterpretationToPet, both of the same render, so both start from the
\* same collection ps, and the second handleSavePets replaces the first's
SavedIdentifiedPet(ps, name, info, t) ==
  LET created == AddPet(ps, name, info.animalType, info.breed, t)
      newPet  == created[Len(created)]
  IN  AddInterpretationToPet(ps, newPet.id, IdentificationText, "Identification", t)

\* handleSaveIdentifiedPet (Save Pet & Start Interpreting)
HandleSaveIdentifiedPet ==
  /\ mounted /\ identifiedPetInfo.present /\ currentManagingPetId = NoPet
  /\ IF ~identifiedPetInfo.present \/ Trim(petName) = <<>>
       THEN /\ error' = "Please provide a name for your pet."
            /\ lastEvent' = Ended("confirm", "rejected")
            /\ UNCHANGED <<pets, storage, currentManagingPetId, identifiedPetInfo,
                           petName, timers>>
       ELSE LET saved == SavedIdentifiedPet(pets, Trim(petName), identifiedPetInfo, now)
            IN
            /\ error' = ""
            /\ pets' = saved
            /\ storage' = saved
            /\ currentManagingPetId' = now
            /\ identifiedPetInfo' = NoInfo
            /\ petName' = <<>>
            /\ timers' = CycleEffect(StartLiveInterpretation(timers, CurrentClosure),
                            Closure(isCameraOn, now, FALSE, isMuted, saved))
            /\ lastEvent' = Event("confirm", "saved", 0, FALSE, 1, 1, 0, now)
  /\ UNCHANGED <<stream, isCameraOn, currentLiveInterpretation, interpretationLog,
                 isLoading, isIdentifying, isMuted, mounted, srcObject, liveCalls,
                 identifyCalls, cameraRequests, activeTracks, nStreams, speaking,
                 now, ai, mediaDevices, upload, synth, nReq, nIdent, issuedFor, stopQuiesced>>

\* the mute button (shown while the camera is on)
ToggleMute ==
  /\ mounted /\ isCameraOn
  /\ isMuted' = ~isMuted
  /\ timers' = CycleEffect(timers,
                  Closure(isCameraOn, currentManagingPetId, identifiedPetInfo.present,
                          ~isMuted, pets))
  /\ lastEvent' = NoEvent
  /\ UNCHANGED <<stream, isCameraOn, currentLiveInterpretation, interpretationLog,
                 isLoading, isIdentifying, error, identifiedPetInfo, petName,
                 currentManagingPetId, mounted, srcObject, pets, storage, liveCalls,
                 identifyCalls, cameraRequests, activeTracks, nStreams, speaking,
                 now, ai, mediaDevices, upload, synth, nReq, nIdent, issuedFor, stopQuiesced>>

(* ----------------------- the interpretation cycle ---------------------- *)
\* the interval callback up to its await, run with the closure t it was
\* created with.  frame: whether captureFrameAsBase64 yields an image.
TimerFires ==
  \E t \in timers, frame \in BOOLEAN :
    IF ~t.cam \/ ~srcObject
      THEN /\ frame
           /\ timers' = ClearRef(timers)
           /\ lastEvent' = Ended("timerFire", "cleared")
           /\ UNCHANGED <<viewVars, pets, storage, liveCalls, identifyCalls,
                          cameraRequests, activeTracks, nStreams, speaking, now, ai,
                          mediaDevices, upload, synth, nReq, nIdent, issuedFor, stopQuiesced>>
      ELSE IF ~frame
        THEN /\ lastEvent' = Ended("timerFire", "noFrame")
             /\ UNCHANGED <<viewVars, pets, storage, timers, liveCalls,
                            identifyCalls, cameraRequests, activeTracks, nStreams,
                            speaking, now, ai, mediaDevices, upload, synth, nReq, nIdent,
                            issuedFor, stopQuiesced>>
        ELSE IF ~ai
          THEN \* interpretLiveFrame rejects at once: the catch block
               /\ currentLiveInterpretation' = NotInitialized
               /\ error' = "Gemini API client is not initialized."
               /\ isLoading' = FALSE
               /\ lastEvent' = Ended("timerFire", "threw")
               /\ UNCHANGED <<stream, isCameraOn, interpretationLog, isIdentifying,
                              identifiedPetInfo, petName, currentManagingPetId,
                              isMuted, mounted, srcObject, pets, storage, timers,
                              liveCalls, identifyCalls, cameraRequests,
                              activeTracks, nStreams, speaking, now, ai,
                              mediaDevices, upload, synth, nReq, nIdent, issuedFor, stopQuiesced>>
          ELSE /\ nReq < MaxReq
               /\ isLoading' = TRUE
               /\ nReq' = nReq + 1
               /\ issuedFor' = Append(issuedFor, currentManagingPetId)
               /\ liveCalls' = liveCalls \cup
                    {[req |-> nReq + 1, pet |-> t.pet, muted |-> t.muted,
                      pets |-> t.pets, stale |-> FALSE]}
               /\ lastEvent' = Event("timerFire", "issued", nReq + 1, FALSE, 0, 0, 0, NoPet)
               /\ UNCHANGED <<stream, isCameraOn, currentLiveInterpretation,
                              interpretationLog, isIdentifying, error,
                              identifiedPetInfo, petName, currentManagingPetId,
                              isMuted, mounted, srcObject, pets, storage, timers,
                              identifyCalls, cameraRequests, activeTracks, nStreams,
                              speaking, now, ai, mediaDevices, upload, synth, nIdent, stopQuiesced>>

\* the callback reading the latest currentManagingPetId (as from a ref)
PersistTarget_Latest(c, current) == current
\* the currentManagingPetId the callback persists to: the one its closure c
\* captured, whatever the current one (current) is by now
PersistTarget(c, current) == c.pet

\* the persist step run for every tick, bound subject or not
Persists_Always(target) == TRUE
\* if (currentManagingPetId): the callback persists only for a bound subject
Persists(target) == target # NoPet

\* interpretLiveFrame resolves: the rest of the callback's try block, run
\* with the closure c of the tick that issued the call
TickResolves ==
  \E c \in liveCalls, resp \in LiveResponses :
    LET text     == InterpretLiveFrame(resp, c.req)
        target   == PersistTarget(c, currentManagingPetId)
        appended == AddInterpretationToPet(c.pets, target, text, "Live Interpretation", now)
    IN
    /\ liveCalls' = liveCalls \ {c}
    /\ IF mounted
         THEN /\ currentLiveInterpretation' = text
              /\ interpretationLog' = LogPush(text, interpretationLog)
              /\ isLoading' = FALSE
         ELSE UNCHANGED <<currentLiveInterpretation, interpretationLog, isLoading>>
    /\ IF Persists(target)
         THEN /\ pets' = appended
              /\ storage' = appended
              /\ timers' = IF mounted
                             THEN CycleEffect(timers,
                                    Closure(isCameraOn, currentManagingPetId,
                                            identifiedPetInfo.present, isMuted, appended))
                             ELSE timers
         ELSE UNCHANGED <<pets, storage, timers>>
    /\ speaking' = IF ~c.muted THEN text ELSE speaking
    /\ lastEvent' = Event("tickResolved", resp.type, c.req, c.stale, 0,
                          IF Persists(target) THEN 1 ELSE 0, IF ~c.muted THEN 1 ELSE 0,
                          target)
    /\ UNCHANGED <<stream, isCameraOn, isIdentifying, error, identifiedPetInfo,
                   petName, currentManagingPetId, isMuted, mounted, srcObject,
                   identifyCalls, cameraRequests, activeTracks, nStreams, now, ai,
                   mediaDevices, upload, synth, nReq, nIdent, issuedFor, stopQuiesced>>

(* ------------------------------ the catalog ---------------------------- *)
\* deletePetFromStorage: loadPets, filter, savePets
DeletePetFromStorage(stored, petId) ==
  SelectSeq(stored, LAMBDA p : p.id # petId)

\* handleDeletePet in PetCatalogView, reached from the menu with no other
\* view open: the pet goes from localStorage and from the catalog's own
\* list; App's collection is not told
HandleDeletePet ==
  \E p \in PetIds(pets) :
    /\ ~mounted /\ ~upload.mounted
    /\ p \in PetIds(storage)
    /\ storage' = DeletePetFromStorage(storage, p)
    /\ lastEvent' = NoEvent
    /\ UNCHANGED <<viewVars, pets, timers, liveCalls, identifyCalls,
                   cameraRequests, activeTracks, nStreams, speaking, now, ai,
                   mediaDevices, upload, synth, nReq, nIdent, issuedFor, stopQuiesced>>

(* ----------------------------- environment ----------------------------- *)
\* the utterance ends
SpeechEnds ==
  /\ speaking # EmptyText
  /\ speaking' = EmptyText
  /\ lastEvent' = NoEvent
  /\ UNCHANGED <<viewVars, pets, storage, timers, liveCalls, identifyCalls,
                 cameraRequests, activeTracks, nStreams, now, ai, mediaDevices, upload, synth,
                 nReq, nIdent, issuedFor, stopQuiesced>>

\* time passes
ClockAdvances ==
  /\ now < InitialClock + MaxClockSteps
  /\ now' = now + 1
  /\ lastEvent' = NoEvent
  /\ UNCHANGED <<viewVars, pets, storage, timers, liveCalls, identifyCalls,
                 cameraRequests, activeTracks, nStreams, speaking, ai,
                 mediaDevices, upload, synth, nReq, nIdent, issuedFor, stopQuiesced>>

Next ==
  \/ StartCamera
  \/ GetUserMediaResolves
  \/ GetUserMediaRejects
  \/ StopCamera
  \/ BackToMenu
  \/ SelectExistingPet
  \/ DeselectPet
  \/ HandleIdentifyPet
  \/ IdentifyResolves
  \/ SetPetName
  \/ HandleSaveIdentifiedPet
  \/ ToggleMute
  \/ TimerFires
  \/ TickResolves
  \/ HandleDeletePet
  \/ SpeechEnds
  \/ ClockAdvances

Spec == Init /\ [][Next]_vars

(* ------------- the view across camera restarts (RestartSpec) ----------- *)
\* The camera started, stopped and started again (or started twice before
\* the first getUserMedia settles), with subject selection, identification
\* and the interval, and nothing saved, muted or left.
StartCameraAgain == StartCameraWithin(MaxRestarts)

RestartNext ==
  \/ StartCameraAgain
  \/ GetUserMediaResolves
  \/ GetUserMediaRejects
  \/ StopCamera
  \/ SelectExistingPet
  \/ DeselectPet
  \/ HandleIdentifyPet
  \/ IdentifyResolves
  \/ TimerFires
  \/ TickResolves

RestartSpec == Init /\ [][RestartNext]_vars

(* ------------------- the log on its own (LogSpec) ---------------------- *)
\* The transient log under pushes (the callback's setInterpretationLog) and
\* clears (startCamera, selectExistingPet), with nothing else moving.
LogPushStep ==
  /\ nReq < MaxLogPushes
  /\ nReq' = nReq + 1
  /\ interpretationLog' = LogPush(Text("observation", nReq + 1, 0), interpretationLog)
  /\ UNCHANGED <<stream, isCameraOn, currentLiveInterpretation, isLoading,
                 isIdentifying, error, identifiedPetInfo, petName,
                 currentManagingPetId, isMuted, mounted, srcObject, pets, storage,
                 timers, liveCalls, identifyCalls, cameraRequests, activeTracks,
                 nStreams, speaking, now, ai, mediaDevices, upload, synth, nIdent, issuedFor,
                 stopQuiesced, lastEvent>>

LogClearStep ==
  /\ interpretationLog # <<>>
  /\ interpretationLog' = <<>>
  /\ UNCHANGED <<stream, isCameraOn, currentLiveInterpretation, isLoading,
                 isIdentifying, error, identifiedPetInfo, petName,
                 currentManagingPetId, isMuted, mounted, srcObject, pets, storage,
                 timers, liveCalls, identifyCalls, cameraRequests, activeTracks,
                 nStreams, speaking, now, ai, mediaDevices, upload, synth, nReq, nIdent,
                 issuedFor, stopQuiesced, lastEvent>>

LogNext == LogPushStep \/ LogClearStep

LogSpec == Init /\ [][LogNext]_vars

(* ------------------- speechService (SpeechSpec) ------------------------ *)
\* String.prototype.substring(a, b) and startsWith
Substring(s, a, b) == SubSeq(s, a + 1, Min(b, Len(s)))
StartsWith(s, prefix) ==
  Len(s) >= Len(prefix) /\ SubSeq(s, 1, Len(prefix)) = prefix

\* the index of the least element of a set of indices of seq, Len + 1 when
\* the set is empty (Array.prototype.find, which gives the first match)
First(seq, I) ==
  IF I = {} THEN Len(seq) + 1 ELSE CHOOSE i \in I : \A j \in I : i <= j

\* the voice of the shared utterance after speak's selection block
SelectVoice(voices, current, lang) ==
  IF Len(voices) > 0 /\ current = NoVoice
    THEN LET d == First(voices, {i \in 1..Len(voices) :
                                   voices[i].lang = lang /\ voices[i].default})
             f == First(voices, {i \in 1..Len(voices) :
                                   StartsWith(voices[i].lang, Substring(lang, 0, 2))})
         IN IF d <= Len(voices) THEN voices[d]
            ELSE IF f <= Len(voices) THEN voices[f]
            ELSE current
    ELSE current

\* what reading synth.speaking can give: true while an utterance is being
\* spoken, false while the engine holds none, and either one, depending on
\* the engine, while it holds utterances it has not begun to speak
SynthSpeaking ==
  IF speaking # EmptyText THEN {TRUE}
  ELSE IF synth.queue # <<>> THEN BOOLEAN
  ELSE {FALSE}

\* speak(text, lang)
Speak ==
  /\ synth.calls < MaxSpeaks
  /\ \E lang \in Locales, busy \in SynthSpeaking :
       LET text == Text("observation", synth.calls + 1, 0)
           u == [text |-> text, lang |-> lang,
                 voice |-> SelectVoice(synth.voices, synth.utterance.voice, lang)]
       IN IF ~synth.supported
            THEN /\ synth' = [synth EXCEPT !.calls = @ + 1]
                 /\ speaking' = speaking
                 /\ lastEvent' = Ended("speak", "unsupported")
            ELSE /\ synth' = [synth EXCEPT
                                !.utterance = u,
                                !.queue = Append(IF busy THEN <<>> ELSE @, u),
                                !.calls = @ + 1]
                 /\ speaking' = IF busy THEN EmptyText ELSE speaking
                 /\ lastEvent' = Event("speak", IF busy THEN "cancelled" ELSE "queued",
                                       synth.calls + 1, FALSE, 0, 0, 1, NoPet)
  /\ UNCHANGED <<viewVars, pets, storage, timers, liveCalls, identifyCalls,
                 cameraRequests, activeTracks, nStreams, now, ai, mediaDevices,
                 upload, nReq, nIdent, issuedFor, stopQuiesced>>

\* cancelSpeech()
CancelSpeech ==
  /\ synth.supported
  /\ \E busy \in SynthSpeaking :
       /\ synth' = [synth EXCEPT !.queue = IF busy THEN <<>> ELSE @]
       /\ speaking' = IF busy THEN EmptyText ELSE speaking
       /\ lastEvent' = Ended("cancelSpeech", IF busy THEN "cancelled" ELSE "idle")
  /\ UNCHANGED <<viewVars, pets, storage, timers, liveCalls, identifyCalls,
                 cameraRequests, activeTracks, nStreams, now, ai, mediaDevices,
                 upload, nReq, nIdent, issuedFor, stopQuiesced>>

\* the engine begins to speak the utterance at the head of its queue
EngineBegins ==
  /\ speaking = EmptyText
  /\ synth.queue # <<>>
  /\ speaking' = Head(synth.queue).text
  /\ synth' = [synth EXCEPT !.queue = Tail(@)]
  /\ lastEvent' = NoEvent
  /\ UNCHANGED <<viewVars, pets, storage, timers, liveCalls, identifyCalls,
                 cameraRequests, activeTracks, nStreams, now, ai, mediaDevices,
                 upload, nReq, nIdent, issuedFor, stopQuiesced>>

\* the engine's voices change (voiceschanged)
VoicesChanged ==
  /\ synth.supported
  /\ \E voices \in VoiceLists \ {synth.voices} :
       synth' = [synth EXCEPT !.voices = voices]
  /\ lastEvent' = NoEvent
  /\ UNCHANGED <<viewVars, pets, storage, timers, liveCalls, identifyCalls,
                 cameraRequests, activeTracks, nStreams, speaking, now, ai,
                 mediaDevices, upload, nReq, nIdent, issuedFor, stopQuiesced>>

SpeechInit ==
  /\ AppLoaded
  /\ mounted = TRUE
  /\ ai = TRUE
  /\ mediaDevices = TRUE
  /\ upload = UploadClosed
  /\ synth \in {SynthIdle(s, v) : s \in BOOLEAN, v \in VoiceLists}

SpeechNext ==
  \/ Speak
  \/ CancelSpeech
  \/ EngineBegins
  \/ SpeechEnds
  \/ VoicesChanged

SpeechSpec == SpeechInit /\ [][SpeechNext]_vars

\* no view opened
MenuInit ==
  /\ AppLoaded
  /\ mounted = FALSE
  /\ ai \in BOOLEAN
  /\ mediaDevices = TRUE
  /\ upload = UploadClosed
  /\ synth = SynthIdle(TRUE, <<>>)

(* --------------------- VideoUploadView (UploadSpec) -------------------- *)
\* what generateContent settles with for an uploaded video: a text, a blank
\* (empty, whitespace or non-string) or an error
VideoResponses ==
  {[type |-> "text", isString |-> TRUE, chars |-> <<"o">>, error |-> NonError],
   [type |-> "blank", isString |-> TRUE, chars |-> <<>>, error |-> NonError],
   [type |-> "blank", isString |-> TRUE, chars |-> <<" ">>, error |-> NonError],
   [type |-> "blank", isString |-> FALSE, chars |-> <<>>, error |-> NonError],
   [type |-> "error", isString |-> FALSE, chars |-> <<>>,
    error |-> Thrown(Message("fetchFailed", FALSE, FALSE, FALSE))]}

Interpreted(text) == [ok |-> TRUE, text |-> text, message |-> NoMessage]
Failed(message) == [ok |-> FALSE, text |-> EmptyText, message |-> message]

\* the empty response answered with the fallback sentence, as in the live path
InterpretPetVideo_Fallback(resp, req) ==
  IF resp.type = "error" THEN Failed(handleGeminiError(resp.error))
  ELSE IF ~resp.isString \/ Trim(resp.chars) = <<>>
    THEN Interpreted(Text("fallback", req, 0))
    ELSE Interpreted(Text("observation", req, 0))
\* interpretPetVideo, with the client initialised
InterpretPetVideo(resp, req) ==
  IF resp.type = "error" THEN Failed(handleGeminiError(resp.error))
  ELSE IF ~resp.isString \/ Trim(resp.chars) = <<>>
    THEN Failed(handleGeminiError(Thrown(EmptyResponseMessage)))
    ELSE Interpreted(Text("observation", req, 0))

SelectVideoMessage == Message("selectVideoFirst", FALSE, FALSE, FALSE)
\* `Pet from ${videoFile.name.substring(0,20)}...`
UploadPetName == <<"P">>

\* the collection handleInterpretPet leaves for the option 'new': addPet and
\* then addInterpretationToPet, both of the render of the click
SavedUploadedPet(ps, text, t) ==
  LET created == AddPet(ps, UploadPetName, "", "", t)
      newPet  == created[Len(created)]
  IN  AddInterpretationToPet(ps, newPet.id, text, "Uploaded Video", t)

\* navigateTo('upload') from the menu
OpenUpload ==
  /\ ~mounted /\ ~upload.mounted
  /\ upload' = [UploadClosed EXCEPT !.mounted = TRUE, !.calls = upload.calls]
  /\ lastEvent' = NoEvent
  /\ UNCHANGED <<viewVars, pets, storage, timers, liveCalls, identifyCalls,
                 cameraRequests, activeTracks, nStreams, speaking, now, ai,
                 mediaDevices, synth, nReq, nIdent, issuedFor, stopQuiesced>>

\* navigateTo('menu') from the upload view: its state is dropped, its
\* outstanding call is not
CloseUpload ==
  /\ upload.mounted
  /\ upload' = [UploadClosed EXCEPT
                  !.calls = {[c EXCEPT !.stale = TRUE] : c \in upload.calls}]
  /\ lastEvent' = NoEvent
  /\ UNCHANGED <<viewVars, pets, storage, timers, liveCalls, identifyCalls,
                 cameraRequests, activeTracks, nStreams, speaking, now, ai,
                 mediaDevices, synth, nReq, nIdent, issuedFor, stopQuiesced>>

\* handleVideoSelect (the file input is enabled when not loading)
HandleVideoSelect ==
  /\ upload.mounted /\ ~upload.isLoading
  /\ upload' = [upload EXCEPT !.videoFile = TRUE, !.interpretation = EmptyText,
                              !.error = NoMessage]
  /\ lastEvent' = NoEvent
  /\ UNCHANGED <<viewVars, pets, storage, timers, liveCalls, identifyCalls,
                 cameraRequests, activeTracks, nStreams, speaking, now, ai,
                 mediaDevices, synth, nReq, nIdent, issuedFor, stopQuiesced>>

\* the pet selector, shown when there are pets and enabled when not loading
SelectPetForUpload ==
  \E p \in PetIds(pets) \cup {NewPetOption} :
    /\ upload.mounted /\ Len(pets) > 0 /\ ~upload.isLoading
    /\ p # upload.selectedPetIdForUpload
    /\ upload' = [upload EXCEPT !.selectedPetIdForUpload = p]
    /\ lastEvent' = NoEvent
    /\ UNCHANGED <<viewVars, pets, storage, timers, liveCalls, identifyCalls,
                   cameraRequests, activeTracks, nStreams, speaking, now, ai,
                   mediaDevices, synth, nReq, nIdent, issuedFor, stopQuiesced>>

\* handleInterpretPet up to its await (the button is enabled with a file
\* chosen and nothing loading); without a client interpretPetVideo rejects
\* at once and the catch and finally blocks run
HandleInterpretPet ==
  /\ upload.mounted /\ upload.videoFile /\ ~upload.isLoading
  /\ nReq < MaxUploads
  /\ nReq' = nReq + 1
  /\ IF ~upload.videoFile
       THEN /\ upload' = [upload EXCEPT !.error = SelectVideoMessage]
            /\ lastEvent' = Ended("handleInterpretPet", "noFile")
       ELSE IF ~ai
         THEN /\ upload' = [upload EXCEPT !.isLoading = FALSE,
                                          !.interpretation = EmptyText,
                                          !.error = NotInitializedMessage]
              /\ lastEvent' = Ended("handleInterpretPet", "threw")
         ELSE /\ upload' = [upload EXCEPT
                              !.isLoading = TRUE, !.error = NoMessage,
                              !.interpretation = EmptyText,
                              !.calls = @ \cup {[id |-> nReq + 1, stale |-> FALSE,
                                                 pets |-> pets,
                                                 selected |-> upload.selectedPetIdForUpload]}]
              /\ lastEvent' = Event("handleInterpretPet", "issued", nReq + 1,
                                    FALSE, 0, 0, 0, NoPet)
  /\ UNCHANGED <<viewVars, pets, storage, timers, liveCalls, identifyCalls,
                 cameraRequests, activeTracks, nStreams, speaking, now, ai,
                 mediaDevices, synth, nIdent, issuedFor, stopQuiesced>>

\* handleInterpretPet from its await on: the result shown and stored, or the
\* error shown; the view's setters do nothing once the view was left
InterpretPetVideoResolves ==
  \E c \in upload.calls, resp \in VideoResponses :
    LET r == InterpretPetVideo(resp, c.id)
        isNew == c.selected = NewPetOption
        saved == IF isNew THEN SavedUploadedPet(c.pets, r.text, now)
                 ELSE AddInterpretationToPet(c.pets, c.selected, r.text,
                                             "Uploaded Video", now)
    IN
    /\ upload' = IF c.stale
                   THEN [upload EXCEPT !.calls = @ \ {c}]
                   ELSE [upload EXCEPT !.calls = @ \ {c},
                                       !.isLoading = FALSE,
                                       !.interpretation = IF r.ok THEN r.text ELSE @,
                                       !.error = IF r.ok THEN @ ELSE r.message]
    /\ IF r.ok
         THEN pets' = saved /\ storage' = saved
         ELSE UNCHANGED <<pets, storage>>
    /\ lastEvent' = Event("uploadResolved", resp.type, c.id, c.stale,
                          IF r.ok /\ isNew THEN 1 ELSE 0,
                          IF r.ok THEN 1 ELSE 0, 0,
                          IF r.ok THEN (IF isNew THEN now ELSE c.selected) ELSE NoPet)
    /\ UNCHANGED <<viewVars, timers, liveCalls, identifyCalls,
                   cameraRequests, activeTracks, nStreams, speaking, now, ai,
                   mediaDevices, synth, nReq, nIdent, issuedFor, stopQuiesced>>

UploadNext ==
  \/ OpenUpload
  \/ CloseUpload
  \/ HandleVideoSelect
  \/ SelectPetForUpload
  \/ HandleInterpretPet
  \/ InterpretPetVideoResolves
  \/ HandleDeletePet
  \/ ClockAdvances

UploadSpec == MenuInit /\ [][UploadNext]_vars

(* --------------- localStorageService (StorageSpec) --------------------- *)
\* A value JSON.parse can give for the stored text: an array of pets, null,
\* an object or a number.
JsValue(kind, items) == [kind |-> kind, items |-> items]
JsArray(items) == JsValue("array", items)

\* What localStorage holds under the key, by what getItem does: it throws,
\* returns null (no such key) or returns a string; the string is empty or
\* not, is JSON text or not, and as JSON text has a value.
Item(getItem, empty, parses, json) ==
  [getItem |-> getItem, empty |-> empty, parses |-> parses, json |-> json]
StoredItems ==
  { Item("throws", FALSE, FALSE, JsArray(<<>>)),
    Item("null", FALSE, FALSE, JsArray(<<>>)),
    Item("string", TRUE, FALSE, JsArray(<<>>)),
    Item("string", FALSE, FALSE, JsArray(<<>>)),
    Item("string", FALSE, TRUE, JsArray(<<>>)),
    Item("string", FALSE, TRUE, JsArray(InitialPets)),
    Item("string", FALSE, TRUE, JsValue("null", <<>>)),
    Item("string", FALSE, TRUE, JsValue("object", <<>>)),
    Item("string", FALSE, TRUE, JsValue("number", <<>>)) }

\* loadPets
LoadPets(item) ==
  IF item.getItem = "throws" THEN JsArray(<<>>)
  ELSE IF item.getItem = "null" \/ item.empty THEN JsArray(<<>>)
  ELSE IF ~item.parses THEN JsArray(<<>>)
  ELSE item.json

\* addPetToStorage: loadPets, the new pet appended, savePets
AddPetToStorage(stored, name, animalType, breed, t) ==
  Append(stored, NewPet(name, animalType, breed, t))

\* Array.prototype.sort with (a, b) => b.timestamp - a.timestamp: stable,
\* newest first
RECURSIVE SortNewestFirst(_)
SortNewestFirst(entries) ==
  IF entries = <<>> THEN <<>>
  ELSE LET front == SortNewestFirst(SubSeq(entries, 1, Len(entries) - 1))
           e     == entries[Len(entries)]
           older == {i \in 1..Len(front) : front[i].timestamp < e.timestamp}
           at    == IF older = {} THEN Len(front) + 1
                    ELSE CHOOSE i \in older : \A j \in older : i <= j
       IN SubSeq(front, 1, at - 1) \o <<e>> \o SubSeq(front, at, Len(front))

\* addInterpretationToPetInStorage: the stored collection with the entry in
\* the history of the pet and the history sorted; savePets only when the pet
\* was found
AddInterpretationToPetInStorage(stored, petId, text, context, t) ==
  [i \in 1..Len(stored) |->
     IF stored[i].id = petId
       THEN [stored[i] EXCEPT !.interpretations =
               SortNewestFirst(Append(@, NewEntry(text, context, t)))]
       ELSE stored[i]]

\* updatePetInStorage with the test of the id left out of its map
UpdatePetInStorage_EveryPet(stored, petId, updates) ==
  [i \in 1..Len(stored) |->
     [f \in DOMAIN stored[i] |->
        IF f \in DOMAIN updates THEN updates[f] ELSE stored[i][f]]]
\* updatePetInStorage: the stored collection with { ...p, ...updates } in
\* the place of the pet; savePets only when the pet was found
UpdatePetInStorage(stored, petId, updates) ==
  [i \in 1..Len(stored) |->
     IF stored[i].id = petId
       THEN [f \in DOMAIN stored[i] |->
               IF f \in DOMAIN updates THEN updates[f] ELSE stored[i][f]]
       ELSE stored[i]]
\* updatedPet after the map: whether a pet with the id was met
PetFound(stored, petId) == \E i \in 1..Len(stored) : stored[i].id = petId

\* the updates the storage module is given
Updates == {[name |-> <<"R">>, animalType |-> "Dog"]}
\* the ids it is given: of pets in the store, of pets no longer in it, of none
StorageIds == PetIds(storage) \cup PetIds(InitialPets) \cup {NoPet}

AddPetToStorageCall ==
  /\ Len(storage) < MaxStoredPets
  /\ storage' = AddPetToStorage(storage, <<"R">>, "Dog", "Unknown", now)
  /\ lastEvent' = Event("addPetToStorage", "", 0, FALSE, 1, 0, 0, now)
  /\ UNCHANGED <<viewVars, pets, timers, liveCalls, identifyCalls,
                 cameraRequests, activeTracks, nStreams, speaking, now, ai,
                 mediaDevices, upload, synth, nReq, nIdent, issuedFor, stopQuiesced>>

AddInterpretationToPetInStorageCall ==
  \E p \in StorageIds :
    /\ \A i \in 1..Len(storage) :
         storage[i].id = p => Len(storage[i].interpretations) < MaxHistory
    /\ storage' = AddInterpretationToPetInStorage(
                     storage, p, Text("observation", 0, 0), "Live Interpretation", now)
    /\ lastEvent' = Event("addInterpretationToPetInStorage",
                          IF PetFound(storage, p) THEN "saved" ELSE "notFound",
                          0, FALSE, 0, 1, 0, p)
    /\ UNCHANGED <<viewVars, pets, timers, liveCalls, identifyCalls,
                   cameraRequests, activeTracks, nStreams, speaking, now, ai,
                   mediaDevices, upload, synth, nReq, nIdent, issuedFor, stopQuiesced>>

UpdatePetInStorageCall ==
  \E p \in StorageIds, u \in Updates :
    /\ storage' = UpdatePetInStorage(storage, p, u)
    /\ lastEvent' = Event("updatePetInStorage",
                          IF PetFound(storage, p) THEN "saved" ELSE "notFound",
                          0, FALSE, 0, 0, 0, p)
    /\ UNCHANGED <<viewVars, pets, timers, liveCalls, identifyCalls,
                   cameraRequests, activeTracks, nStreams, speaking, now, ai,
                   mediaDevices, upload, synth, nReq, nIdent, issuedFor, stopQuiesced>>

DeletePetFromStorageCall ==
  \E p \in PetIds(storage) :
    /\ storage' = DeletePetFromStorage(storage, p)
    /\ lastEvent' = Event("deletePetFromStorage", "", 0, FALSE, 0, 0, 0, p)
    /\ UNCHANGED <<viewVars, pets, timers, liveCalls, identifyCalls,
                   cameraRequests, activeTracks, nStreams, speaking, now, ai,
                   mediaDevices, upload, synth, nReq, nIdent, issuedFor, stopQuiesced>>

StorageNext ==
  \/ AddPetToStorageCall
  \/ AddInterpretationToPetInStorageCall
  \/ UpdatePetInStorageCall
  \/ DeletePetFromStorageCall
  \/ ClockAdvances

StorageSpec == MenuInit /\ [][StorageNext]_vars

(* ------------- the services called on their own (ServiceSpec) ---------- *)
\* a call of a service function: what it was given and what it gave
Call(op, input, result) == [op |-> op, input |-> input, result |-> result]

\* the objects a response can carry: any of the three fields present, each
\* with a text or the empty string
IdentifyObjects ==
  UNION {{JsonObject(f) : f \in [S -> {"", "Dog"}]} : S \in SUBSET Fields}
\* what generateContent can settle with for an identification
IdentifyReplies ==
  {Rejected(e) : e \in TransportErrors}
    \cup {Fulfilled(NoText)}
    \cup {Fulfilled(ReplyText(fenced, FALSE, JsonNull)) : fenced \in BOOLEAN}
    \cup {Fulfilled(ReplyText(fenced, TRUE, json)) :
           fenced \in BOOLEAN, json \in IdentifyObjects \cup {JsonNull, JsonOther}}

LoadPetsCall ==
  /\ \E item \in StoredItems :
       lastEvent' = Call("loadPets", item, LoadPets(item))
  /\ UNCHANGED <<viewVars, pets, storage, timers, liveCalls, identifyCalls,
                 cameraRequests, activeTracks, nStreams, speaking, now, ai,
                 mediaDevices, upload, synth, nReq, nIdent, issuedFor, stopQuiesced>>

IdentifyPetFromFrameCall ==
  /\ \E reply \in IdentifyReplies :
       lastEvent' = Call("identifyPetFromFrame", reply,
                         IF ai THEN IdentifyPetFromFrame(reply)
                               ELSE Threw(NotInitializedMessage))
  /\ UNCHANGED <<viewVars, pets, storage, timers, liveCalls, identifyCalls,
                 cameraRequests, activeTracks, nStreams, speaking, now, ai,
                 mediaDevices, upload, synth, nReq, nIdent, issuedFor, stopQuiesced>>

ServiceNext ==
  \/ LoadPetsCall
  \/ IdentifyPetFromFrameCall

ServiceSpec == MenuInit /\ [][ServiceNext]_vars

(* ------------------------------- claims -------------------------------- *)
LiveEntries(ps) ==
  {e \in UNION {{ps[i].interpretations[k] : k \in 1..Len(ps[i].interpretations)}
                  : i \in 1..Len(ps)} : e.context = "Live Interpretation"}

\* C1: at most one interpretLiveFrame call is outstanding at any time (a
\* tick that fires while the previous call is outstanding issues nothing).
C1_OneInterpretationInFlight == Cardinality(liveCalls) <= 1

\* C2: once stopCamera has returned (with no camera acquisition pending), no
\* interval is live, so no tick fires, until startCamera is called again.
C2_NoFiringAfterStop == stopQuiesced => timers = {}

\* C2 witness: the camera was started with a subject bound, ticks issued
\* calls, and stopCamera has returned.
C2_StoppedAfterTicks ==
  /\ stopQuiesced /\ mounted /\ ~isCameraOn
  /\ nReq > 0 /\ currentManagingPetId # NoPet

\* C3: a call that was outstanding when stopCamera ran changes nothing when
\* it resolves: text, log, pending identification, error and store stay.
C3_StaleResultDiscarded ==
  [][((TickResolves \/ IdentifyResolves) /\ lastEvent'.stale)
       => UNCHANGED <<currentLiveInterpretation, interpretationLog,
                      identifiedPetInfo, error, pets, storage>>]_vars

\* C4: a Live Interpretation entry is only ever in the history of the
\* subject that was tracked when its call was issued: a tick that started
\* under A and resolves after B was bound adds nothing to B's history.
C4_StaleTickNotAttributed ==
  \A ps \in {pets, storage} : \A i \in 1..Len(ps) :
    \A k \in 1..Len(ps[i].interpretations) :
      LET e == ps[i].interpretations[k] IN
      e.context = "Live Interpretation" => issuedFor[e.text.req] = ps[i].id

\* C4 witness: B is tracked, and the log (cleared when B was selected) holds
\* the result of a call issued under A, which A's history holds too.
C4_StaleTickResolvedUnderB ==
  /\ currentManagingPetId = InitialPets[2].id
  /\ \E r \in 1..nReq :
       /\ issuedFor[r] = InitialPets[1].id
       /\ \E k \in 1..Len(interpretationLog) : interpretationLog[k].req = r
       /\ \E e \in LiveEntries(<<pets[1]>>) : e.text.req = r

\* C5: after a confirm that passed validation, the store holds the tracked
\* subject, named with the trimmed name, with exactly one entry, tagged
\* Identification; one create and one append were made; the pending
\* identification is cleared and, camera on, the interval is live.
C5_ConfirmCreatesSubject ==
  (lastEvent.op = "confirm" /\ lastEvent.outcome = "saved") =>
    /\ lastEvent.creates = 1 /\ lastEvent.appends = 1
    /\ ~identifiedPetInfo.present
    /\ isCameraOn => timers # {}
    /\ \E i \in 1..Len(storage) :
         /\ storage[i].id = currentManagingPetId
         /\ storage[i].name # <<>> /\ Trim(storage[i].name) = storage[i].name
         /\ Len(storage[i].interpretations) = 1
         /\ storage[i].interpretations[1].context = "Identification"

Blank(s) == \A k \in 1..Len(s) : s[k] = " "

\* C6: confirm with an empty or whitespace-only name keeps the pending
\* identification and the tracked subject, sets the validation error and
\* makes no store call.
C6_BlankNameRejected ==
  [][(HandleSaveIdentifiedPet /\ Blank(petName)) =>
       /\ identifiedPetInfo.present /\ identifiedPetInfo' = identifiedPetInfo
       /\ currentManagingPetId' = currentManagingPetId
       /\ error' = "Please provide a name for your pet."
       /\ lastEvent'.creates = 0 /\ lastEvent'.appends = 0
       /\ pets' = pets /\ storage' = storage]_vars

\* C6 witness: a confirm with a whitespace-only name has just been rejected.
C6_WhitespaceNameRejected ==
  /\ lastEvent.op = "confirm" /\ lastEvent.outcome = "rejected"
  /\ petName = <<" ">>

\* C7: in Tracking, unmuted, a tick whose backend call failed shows the
\* error marker, appends nothing, announces nothing and logs nothing.
C7_FailedTickNotPersisted ==
  ( /\ lastEvent.op = "tickResolved" /\ lastEvent.outcome = "error"
    /\ ~lastEvent.stale /\ mounted /\ isCameraOn /\ ~isMuted
    /\ currentManagingPetId # NoPet ) =>
    /\ currentLiveInterpretation.kind = "errorFromAI"
    /\ lastEvent.appends = 0
    /\ lastEvent.announces = 0
    /\ \A k \in 1..Len(interpretationLog) : interpretationLog[k].req # lastEvent.req

\* C8: at most one interval is live.
C8_OneTimer == Cardinality(timers) <= 1

\* C8 witness: confirm with the camera on has just replaced the provisional
\* cycle's interval (started directly, then restarted by the effect).
C8_TimerRestartedByConfirm ==
  /\ lastEvent.op = "confirm" /\ lastEvent.outcome = "saved"
  /\ isCameraOn /\ Cardinality(timers) = 1

\* an interval whose callback gets past its camera check
CanIssue(t) == t.cam /\ srcObject

\* C9: an interval whose tick can issue an interpret call is live only while
\* the camera is on and a subject is tracked or an identification is pending.
C9_CycleOnlyWhileStreaming ==
  (\E t \in timers : CanIssue(t)) =>
    isCameraOn /\ (currentManagingPetId # NoPet \/ identifiedPetInfo.present)

\* C9 witness: the provisional cycle: camera on, identification pending, no
\* subject bound, an interval live.
C9_ProvisionalCycle ==
  /\ \E t \in timers : CanIssue(t)
  /\ isCameraOn /\ identifiedPetInfo.present /\ currentManagingPetId = NoPet

\* C10: the log never holds more than 100 entries, and a push into a full
\* log drops exactly the oldest entry and keeps the other 99 in order.
C10_LogBounded ==
  /\ [](Len(interpretationLog) <= LogCapacity)
  /\ [][(LogPushStep /\ Len(interpretationLog) = LogCapacity) =>
          /\ Len(interpretationLog') = LogCapacity
          /\ \A k \in 1..LogKeep : interpretationLog'[k + 1] = interpretationLog[k]
          /\ \A k \in 1..LogCapacity :
               interpretationLog'[k] # interpretationLog[LogCapacity]]_vars

\* C10 witness: the 101st push has been made into a full log.
C10_PushedIntoFullLog ==
  /\ Len(interpretationLog) = LogCapacity
  /\ interpretationLog[1].req = LogCapacity + 1

Entries(pet) == {pet.interpretations[k] : k \in 1..Len(pet.interpretations)}

\* C11: an append (by a tick or by confirm) whose target id is not in the
\* persisted store when the write happens changes nothing in the store: a
\* subject deleted from the store is not written back.  (Confirm's append
\* follows addPet's write, which put its target there.)
C11_AppendTargetInStore ==
  [][/\ (TickResolves /\ lastEvent'.appends = 1) =>
          (lastEvent'.target \in PetIds(storage) \/ storage' = storage)
     /\ (HandleSaveIdentifiedPet /\ lastEvent'.appends = 1) =>
          lastEvent'.target \in
            PetIds(AddPet(pets, Trim(petName), identifiedPetInfo.animalType,
                          identifiedPetInfo.breed, now))]_vars

\* C12: every entry of a stored subject's history is still in that subject's
\* history after a confirm or a tick completion that keeps the subject.
C12_HistoryAppendOnly ==
  [][(TickResolves \/ HandleSaveIdentifiedPet) =>
       \A i \in 1..Len(storage) : \A j \in 1..Len(storage') :
         storage'[j].id = storage[i].id =>
           Entries(storage[i]) \subseteq Entries(storage'[j])]_vars

\* C13: a tick that announced its text was handled with the mute flag off.
C13_MutedNeverAnnounces ==
  (lastEvent.op = "tickResolved" /\ lastEvent.announces = 1) => ~isMuted

\* C14: from stopCamera's return until the next startCamera the speech
\* engine is silent.
C14_SilentAfterStop == stopQuiesced => speaking = EmptyText

\* C15: while the view is gone, or idle with no acquisition pending, no
\* acquired media stream has running tracks.
C15_CameraReleased ==
  (~mounted \/ (~isCameraOn /\ Len(cameraRequests) = 0)) => activeTracks = {}

\* C16: when startCamera has failed (getUserMedia rejected, or no
\* getUserMedia at all), the camera is off, no stream is held, no interval
\* is live and an error is shown.
C16_FailedStartLeavesIdle ==
  (lastEvent.op = "startCamera" /\ mounted) =>
    /\ ~isCameraOn
    /\ stream = NoStream /\ activeTracks = {}
    /\ timers = {}
    /\ error # ""

\* C17: handleIdentifyPet with no frame to capture shows the capture error,
\* issues no call, and leaves the camera on with no identification present
\* and none in flight.
C17_NoFrameNoIdentification ==
  [][(HandleIdentifyPet /\ lastEvent'.outcome = "noFrame") =>
       /\ error' = "Could not capture frame from video."
       /\ nIdent' = nIdent /\ identifyCalls' = identifyCalls
       /\ nReq' = nReq /\ liveCalls' = liveCalls
       /\ isCameraOn' /\ ~identifiedPetInfo'.present /\ ~isIdentifying']_vars

\* C17 witness: an identification was requested with no frame to capture,
\* with the Gemini client configured.
C17_IdentifyWithoutFrame ==
  /\ lastEvent.op = "identify" /\ lastEvent.outcome = "noFrame"
  /\ ai /\ isCameraOn /\ error = "Could not capture frame from video."

C19_IdentifyAndTickExclusive == ~(identifyCalls # {} /\ liveCalls # {})

\* C20: a tracked subject and a pending identification are never both
\* present.
C20_SubjectXorPending ==
  ~(currentManagingPetId # NoPet /\ identifiedPetInfo.present)

\* C21: a tick whose call is answered with an empty, whitespace-only or
\* non-string text completes as a success: the fallback sentence becomes the
\* text shown and the newest log entry, it is appended when a subject is
\* bound and announced when not muted, and no error is set.
C21_BlankResponseFallsBack ==
  [][(TickResolves /\ lastEvent'.outcome = "blank" /\ mounted) =>
       /\ currentLiveInterpretation'.kind = "fallback"
       /\ currentLiveInterpretation'.req = lastEvent'.req
       /\ Head(interpretationLog') = currentLiveInterpretation'
       /\ error' = error
       /\ lastEvent'.target # NoPet => lastEvent'.appends = 1
       /\ lastEvent'.announces = 1 => speaking' = currentLiveInterpretation']_vars

\* C21 witness: a blank response has been handled for a bound subject and
\* the fallback sentence is in the subject's persisted history.
C21_FallbackPersisted ==
  /\ lastEvent.op = "tickResolved" /\ lastEvent.outcome = "blank" /\ mounted
  /\ currentLiveInterpretation.kind = "fallback"
  /\ \E e \in LiveEntries(storage) :
       e.text.kind = "fallback" /\ e.text.req = lastEvent.req

\* C22: after a tick whose backend call failed, in Tracking with the camera
\* on, the failure is in the text shown and in the error, and the interval
\* is still live.
C22_TickFailureCaptured ==
  ( /\ lastEvent.op = "tickResolved" /\ lastEvent.outcome = "error"
    /\ ~lastEvent.stale /\ mounted /\ isCameraOn
    /\ currentManagingPetId # NoPet ) =>
    /\ currentLiveInterpretation.kind = "errorFromAI"
    /\ error # ""
    /\ timers # {}

\* C29: every persisted history is ordered newest-first.
C29_HistoryNewestFirst ==
  \A i \in 1..Len(storage) :
    \A k \in 1..(Len(storage[i].interpretations) - 1) :
      storage[i].interpretations[k].timestamp
        >= storage[i].interpretations[k + 1].timestamp

\* C30: an id enters the persisted store only as the id of a subject
\* created by that very step, so the id of a deleted subject never comes
\* back through an append or a tick.
C30_DeletedStaysDeleted ==
  [][\A p \in PetIds(storage') \ PetIds(storage) :
       lastEvent'.creates = 1 /\ lastEvent'.target = p]_vars

\* the texts the engine holds: the one being spoken, then the ones queued
InEngine ==
  (IF speaking # EmptyText THEN <<speaking>> ELSE <<>>)
    \o [i \in 1..Len(synth.queue) |-> synth.queue[i].text]

\* C23: after any sequence of speak calls the engine holds at most one
\* utterance, playing or pending, and it carries the text of the most recent
\* call.
C23_LastWriteWins ==
  /\ Len(InEngine) <= 1
  /\ \A i \in 1..Len(InEngine) : InEngine[i] = synth.utterance.text

\* the language subtag of a locale: its characters before the first "-"
Subtag(lang) ==
  LET D == {i \in 1..Len(lang) : lang[i] = "-"}
  IN IF D = {} THEN lang
     ELSE SubSeq(lang, 1, (CHOOSE i \in D : \A j \in D : i <= j) - 1)

\* C24: the voice of every speak call follows the selection policy for the
\* locale of that call: a default voice of exactly that locale if the engine
\* offers one, otherwise a voice of the same language subtag, otherwise no
\* voice (the engine's default).
C24_VoiceFollowsPolicy ==
  (lastEvent.op = "speak" /\ lastEvent.outcome # "unsupported") =>
    LET vs == synth.voices
        lang == synth.utterance.lang
        v == synth.utterance.voice
        exact == {i \in 1..Len(vs) : vs[i].lang = lang /\ vs[i].default}
        sub == {i \in 1..Len(vs) : Subtag(vs[i].lang) = Subtag(lang)}
    IN IF exact # {} THEN \E i \in exact : v = vs[i]
       ELSE IF sub # {} THEN \E i \in sub : v = vs[i]
       ELSE v = NoVoice

\* C25: loading from storage that is unreadable, missing or does not hold a
\* collection of subjects yields the empty collection.
C25_CorruptLoadsEmpty ==
  ( /\ lastEvent.op = "loadPets"
    /\ ~( /\ lastEvent.input.getItem = "string" /\ ~lastEvent.input.empty
          /\ lastEvent.input.parses /\ lastEvent.input.json.kind = "array" ) ) =>
    lastEvent.result = JsArray(<<>>)

\* the outcomes identifyPetFromFrame has for a transport failure
TransportOutcomes ==
  {IdentifyPetFromFrame(Rejected(e)).message : e \in TransportErrors}

\* C26: a response that is not JSON, or is JSON without one of the three
\* fields, is a failure whose outcome differs from every outcome of a
\* transport failure, and a record that is returned has the three fields of
\* the response.
C26_MalformedIsDistinctFailure ==
  (lastEvent.op = "identifyPetFromFrame" /\ ai) =>
    LET text == lastEvent.input.text
        r    == lastEvent.result
        missing == \/ text.json.kind # "object"
                   \/ \E k \in Fields : k \notin DOMAIN text.json.fields
        malformed == /\ lastEvent.input.settled = "fulfilled" /\ text.isString
                     /\ (~text.parses \/ missing)
    IN /\ malformed => (~r.ok /\ r.message \notin TransportOutcomes)
       /\ r.ok => /\ text.json.kind = "object"
                   /\ \A k \in Fields : k \in DOMAIN text.json.fields
                   /\ r.info = Info(text.json.fields["animalType"],
                                    text.json.fields["breed"],
                                    text.json.fields["description"])

\* C26 witness: a parseable object without its breed has been reported as
\* the format failure.
C26_IncompleteReported ==
  /\ lastEvent.op = "identifyPetFromFrame" /\ ai
  /\ lastEvent.input.settled = "fulfilled"
  /\ lastEvent.input.text.parses
  /\ lastEvent.input.text.json.kind = "object"
  /\ DOMAIN lastEvent.input.text.json.fields = {"animalType", "description"}
  /\ ~lastEvent.result.ok
  /\ lastEvent.result.message = [FormatMessage EXCEPT !.wrapped = TRUE]

\* C28: the subjects of the store have pairwise distinct ids.
C28_IdsUnique ==
  \A i, j \in 1..Len(storage) : i # j => storage[i].id # storage[j].id

\* C27: an uploaded video answered with an empty, whitespace-only or
\* non-string text ends in the error: the store and the collection are as
\* they were, nothing was created or appended, and the view the call came
\* from shows the error and no interpretation and is no longer loading.
C27_EmptyUploadFails ==
  [][(InterpretPetVideoResolves /\ lastEvent'.outcome = "blank") =>
       /\ storage' = storage /\ pets' = pets
       /\ lastEvent'.creates = 0 /\ lastEvent'.appends = 0
       /\ ~lastEvent'.stale =>
            /\ upload'.error # NoMessage
            /\ upload'.interpretation = EmptyText
            /\ ~upload'.isLoading]_vars

\* C27 witness: an upload for a chosen pet was answered with a blank text
\* and the view shows the empty-response error.
C27_EmptyUploadReported ==
  /\ lastEvent.op = "uploadResolved" /\ lastEvent.outcome = "blank"
  /\ ~lastEvent.stale /\ upload.mounted
  /\ upload.selectedPetIdForUpload # NewPetOption
  /\ upload.error = EmptyResponseMessage
  /\ upload.interpretation = EmptyText
  /\ storage = InitialPets

\* C31: a tick answered with a text and handled while a subject is bound
\* sets the text shown, puts it at the head of the log and appends exactly
\* one entry, tagged Live Interpretation and carrying that text, to the
\* persisted history of the bound subject; handled with no subject bound it
\* leaves the store as it was.
C31_TickAppendsOnce ==
  [][(TickResolves /\ lastEvent'.outcome = "text" /\ mounted) =>
       LET text == Text("observation", lastEvent'.req, 0) IN
       /\ currentLiveInterpretation' = text
       /\ Head(interpretationLog') = text
       /\ IF currentManagingPetId # NoPet
            THEN \E i \in 1..Len(storage), j \in 1..Len(storage') :
                   /\ storage[i].id = currentManagingPetId
                   /\ storage'[j].id = currentManagingPetId
                   /\ storage'[j].interpretations =
                        Append(storage[i].interpretations,
                               NewEntry(text, "Live Interpretation", now))
            ELSE storage' = storage]_vars

\* C32: an upload answered with a text leaves, for the option 'new', a
\* subject in the store that was not there before and whose history holds
\* the text tagged Uploaded Video; for a chosen subject, that subject's
\* history with exactly that entry appended.
C32_UploadPersisted ==
  [][(InterpretPetVideoResolves /\ lastEvent'.outcome = "text") =>
       LET text == Text("observation", lastEvent'.req, 0) IN
       IF lastEvent'.creates = 1
         THEN \E j \in 1..Len(storage') :
                /\ storage'[j].id \notin PetIds(storage)
                /\ \E e \in Entries(storage'[j]) :
                     e.context = "Uploaded Video" /\ e.text = text
         ELSE \E i \in 1..Len(storage), j \in 1..Len(storage') :
                /\ storage[i].id = lastEvent'.target
                /\ storage'[j].id = lastEvent'.target
                /\ storage'[j].interpretations =
                     Append(storage[i].interpretations,
                            NewEntry(text, "Uploaded Video", now))]_vars

\* C38: while the view is shown, isLoading is true exactly when an
\* interpretLiveFrame call issued by a tick is outstanding.
C38_LoadingFlagAccurate ==
  mounted => (isLoading <=> liveCalls # {})
\* C33: selecting an existing subject binds it, empties the transient log
\* and the most recent text, clears the pending identification, the proposed
\* name and the last error, leaves the persisted store as it was, and
\* leaves exactly one live cycle timer, of the new subject, when the camera
\* is on (the selector is rendered only while the camera is off, and then
\* no timer is left at all).
C33_SelectBindsAndClears ==
  [][SelectExistingPet =>
       /\ currentManagingPetId' \in PetIds(pets)
       /\ currentManagingPetId' # currentManagingPetId
       /\ interpretationLog' = <<>>
       /\ currentLiveInterpretation' = EmptyText
       /\ identifiedPetInfo' = NoInfo
       /\ petName' = <<>>
       /\ error' = ""
       /\ storage' = storage /\ pets' = pets
       /\ isCameraOn' = isCameraOn
       /\ IF isCameraOn'
            THEN \E t \in timers' :
                   timers' = {t} /\ t.ref /\ t.pet = currentManagingPetId'
            ELSE timers' = {}]_vars
\* a subject of the catalog is bound with the camera off after an
\* identification had been answered and a tick had been shown: the selection
\* found a log, a text or a pending identification to clear
C33_SelectedAfterIdentification ==
  /\ mounted /\ ~isCameraOn
  /\ currentManagingPetId \in PetIds(InitialPets)
  /\ nIdent = 1 /\ identifyCalls = {} /\ nReq >= 1
  /\ ~identifiedPetInfo.present /\ error = ""
  /\ interpretationLog = <<>> /\ currentLiveInterpretation = EmptyText
  /\ storage = InitialPets


\* C34: the mute button changes the mute flag and nothing else: the live
\* cycle timer is the same timer before and after (neither cancelled nor
\* restarted), and the camera, the subject, the pending identification, the
\* log, the most recent text, the store and an utterance being spoken are
\* as they were.
C34_MuteChangesOnlyFlag ==
  [][ToggleMute =>
       /\ isMuted' = ~isMuted
       /\ timers' = timers
       /\ UNCHANGED <<stream, isCameraOn, currentManagingPetId, identifiedPetInfo,
                      petName, interpretationLog, currentLiveInterpretation,
                      pets, storage, speaking>>]_vars

\* C35: stopCamera changes the camera and the playback only: the subject,
\* the pending identification, the proposed name, the log, the most recent
\* text and the store are as they were (the confirmation form is still
\* shown for an identification pending at the stop); and a stopCamera in
\* the stopped view (Back to Menu with the camera off and no stream held)
\* leaves the stream, the tracks and the timers as they were too.
C35_StopKeepsSession ==
  [][(StopCamera \/ BackToMenu) =>
       /\ UNCHANGED <<currentManagingPetId, identifiedPetInfo, petName,
                      interpretationLog, currentLiveInterpretation, pets, storage>>
       /\ ~isCameraOn' /\ stream' = NoStream /\ timers' = {}
       /\ speaking' = EmptyText
       /\ (~isCameraOn /\ stream = NoStream =>
             UNCHANGED <<stream, isCameraOn, activeTracks, timers>>)]_vars
\* the camera was stopped while an identification was pending (a call
\* issued for the pending identification was outstanding at the stop), and
\* the pending identification was confirmed with the camera off
C35_ConfirmedAfterStop ==
  /\ mounted /\ ~isCameraOn /\ stopQuiesced
  /\ lastEvent.op = "confirm" /\ lastEvent.outcome = "saved"
  /\ currentManagingPetId = lastEvent.target
  /\ \E c \in liveCalls : c.stale /\ c.pet = NoPet

\* C36: startCamera empties the transient log and the most recent text and
\* clears the last error before it asks for the camera, and when the camera
\* is granted the view is camera-on and a cycle timer is live exactly when
\* a subject is bound or an identification is pending.
C36_StartClearsThenCycles ==
  [][/\ ((StartCamera \/ StartCameraAgain) /\ mediaDevices) =>
          /\ interpretationLog' = <<>>
          /\ currentLiveInterpretation' = EmptyText
          /\ error' = ""
          /\ Len(cameraRequests') = Len(cameraRequests) + 1
     /\ (GetUserMediaResolves /\ mounted) =>
          /\ isCameraOn' /\ stream' # NoStream
          /\ (timers' # {}) <=>
               (currentManagingPetId' # NoPet \/ identifiedPetInfo'.present)]_vars

\* C37: when an identification is answered in the mounted view, a valid
\* answer leaves a populated pending identification (an answer that saw no
\* animal is kept with the type "Unknown" and an empty proposed name; any
\* other proposes the type as the name), a failed one leaves no pending
\* identification and sets the error, and in both cases isIdentifying is
\* false afterwards.
C37_IdentifyOutcomes ==
  [][(IdentifyResolves /\ mounted) =>
       /\ isIdentifying' = FALSE
       /\ lastEvent'.outcome = "dog" =>
            /\ identifiedPetInfo'.present
            /\ identifiedPetInfo'.animalType = "Dog"
            /\ petName' = Chars("Dog")
       /\ lastEvent'.outcome = "noAnimal" =>
            /\ identifiedPetInfo'.present
            /\ identifiedPetInfo'.animalType = "Unknown"
            /\ petName' = <<>>
       /\ lastEvent'.outcome = "failure" =>
            /\ ~identifiedPetInfo'.present
            /\ error' # ""
            /\ petName' = petName]_vars
\* an answer that saw no animal has been handled: the identification is
\* pending as "Unknown" with no name proposed
C37_UnknownPending ==
  /\ mounted /\ lastEvent.op = "identifyResolved" /\ lastEvent.outcome = "noAnimal"
  /\ identifiedPetInfo.present /\ identifiedPetInfo.animalType = "Unknown"
  /\ petName = <<>> /\ ~isIdentifying /\ identifyCalls = {}

\* C39: in the storage module, an append or an update for an id that no
\* subject of the store has answers not-found and leaves the persisted
\* collection as it was; for an id in the store it answers the subject, and
\* every subject with another id, and the order and number of the subjects,
\* are as they were.
C39_OnlyNamedSubjectChanges ==
  [][(AddInterpretationToPetInStorageCall \/ UpdatePetInStorageCall) =>
       LET p == lastEvent'.target IN
       /\ Len(storage') = Len(storage)
       /\ \A i \in 1..Len(storage) :
            /\ storage'[i].id = storage[i].id
            /\ storage[i].id # p => storage'[i] = storage[i]
       /\ IF p \in PetIds(storage)
            THEN lastEvent'.outcome = "saved"
            ELSE lastEvent'.outcome = "notFound" /\ storage' = storage]_vars
\* an update was made for the id of a subject that had been deleted, with
\* other subjects in the store
C39_UpdateOfDeletedSubject ==
  /\ lastEvent.op = "updatePetInStorage" /\ lastEvent.outcome = "notFound"
  /\ lastEvent.target \in PetIds(InitialPets)
  /\ Len(storage) >= 2
  /\ \E i \in 1..Len(storage) :
       storage[i].id \in PetIds(InitialPets) /\ storage[i].name = <<"R">>

====
